---- MODULE Spec2Model ----
(***************************************************************************)
(* VerticaService (src/src/types/vertica.ts): the readonly gate             *)
(* validateReadonlyQuery, executeQuery and the LIMIT/OFFSET generator       *)
(* streamQuery, driven by a caller and by a database driver whose           *)
(* connect(), query() and end() either succeed or throw; and the tools      *)
(* execute_query, stream_query and get_table_structure (src/src/tools),     *)
(* each of which constructs a service, awaits one of its operations and     *)
(* disconnects in a finally block.                                          *)
(*                                                                         *)
(* A SQL text and an error message are sequences of one-character strings.  *)
(* One action is one synchronous run of the JavaScript code between two     *)
(* awaits (or between a yield and the consumer's next request).             *)
(***************************************************************************)
EXTENDS Integers, Sequences, FiniteSets, TLC

\* ------------------------------------------------------------------ bounds
MaxPad == 1
MaxData == 4
MaxBatchSize == 3
MaxCap == 4
MaxCalls == 2
MaxInserted == 1

\* ------------------------------------------------- characters and strings
LowerLetters ==
  <<"a","b","c","d","e","f","g","h","i","j","k","l","m",
    "n","o","p","q","r","s","t","u","v","w","x","y","z">>

UpperLetters ==
  <<"A","B","C","D","E","F","G","H","I","J","K","L","M",
    "N","O","P","Q","R","S","T","U","V","W","X","Y","Z">>

\* the white space String.prototype.trim() strips (the part of it used here)
WhiteSpace == {" ", "\n"}

\* String.prototype.toUpperCase on one character
UpperChar(c) ==
  IF \E i \in 1..26 : LowerLetters[i] = c
  THEN UpperLetters[CHOOSE i \in 1..26 : LowerLetters[i] = c]
  ELSE c

LowerChar(c) ==
  IF \E i \in 1..26 : UpperLetters[i] = c
  THEN LowerLetters[CHOOSE i \in 1..26 : UpperLetters[i] = c]
  ELSE c

toUpperCase(s) == [i \in 1..Len(s) |-> UpperChar(s[i])]

\* trim as trimEnd: the leading white space stays
trim_TrailingOnly(s) ==
  LET nonWs == {i \in 1..Len(s) : s[i] \notin WhiteSpace}
  IN  IF nonWs = {} THEN <<>>
      ELSE SubSeq(s, 1, CHOOSE i \in nonWs : \A j \in nonWs : j <= i)

\* a normalisation that drops leading "--" comment lines as well as the
\* white space around the text
RECURSIVE trim_StripsComments(_)
trim_StripsComments(s) ==
  LET nonWs == {i \in 1..Len(s) : s[i] \notin WhiteSpace}
      first == CHOOSE i \in nonWs : \A j \in nonWs : i <= j
      last  == CHOOSE i \in nonWs : \A j \in nonWs : j <= i
      ends  == {i \in first..last : s[i] = "\n"}
  IN  IF nonWs = {} THEN <<>>
      ELSE IF first < last /\ s[first] = "-" /\ s[first + 1] = "-"
      THEN IF ends = {} THEN <<>>
           ELSE trim_StripsComments(
                  SubSeq(s, (CHOOSE i \in ends : \A j \in ends : i <= j) + 1,
                         last))
      ELSE SubSeq(s, first, last)

\* String.prototype.trim: drops the longest white-space prefix and suffix
trim(s) ==
  LET nonWs == {i \in 1..Len(s) : s[i] \notin WhiteSpace}
  IN  IF nonWs = {} THEN <<>>
      ELSE LET first == CHOOSE i \in nonWs : \A j \in nonWs : i <= j
               last  == CHOOSE i \in nonWs : \A j \in nonWs : j <= i
           IN  SubSeq(s, first, last)

\* startsWith as includes: the prefix anywhere in the text
startsWith_Anywhere(s, prefix) ==
  \E p \in 1..(Len(s) - Len(prefix) + 1) :
     SubSeq(s, p, p + Len(prefix) - 1) = prefix

\* String.prototype.startsWith
startsWith(s, prefix) ==
  /\ Len(prefix) <= Len(s)
  /\ SubSeq(s, 1, Len(prefix)) = prefix

\* Number -> decimal digits, as a template literal formats it
Digits == <<"0","1","2","3","4","5","6","7","8","9">>

RECURSIVE NumberToString(_)
NumberToString(n) ==
  IF n < 10 THEN <<Digits[n + 1]>>
  ELSE NumberToString(n \div 10) \o <<Digits[(n % 10) + 1]>>

\* ----------------------------------------------------------- the gate
READONLY_QUERY_PREFIXES ==
  << <<"S","E","L","E","C","T">>,
     <<"S","H","O","W">>,
     <<"D","E","S","C","R","I","B","E">>,
     <<"E","X","P","L","A","I","N">>,
     <<"W","I","T","H">> >>

\* const isReadonly = prefixes.some((prefix) => trimmedSql.startsWith(prefix))
isReadonly(sql) ==
  LET trimmedSql == toUpperCase(trim(sql))
  IN  \E k \in 1..Len(READONLY_QUERY_PREFIXES) :
         startsWith(trimmedSql, READONLY_QUERY_PREFIXES[k])

\* TRUE iff validateReadonlyQuery(sql) throws; the service's config is not
\* consulted: VerticaConfig has no readonlyMode field in this version
validateReadonlyQueryThrows(sql) == ~isReadonly(sql)

\* ------------------------------------------------------- statement texts
\* "SELECT 1"
SqlSelect ==
  <<"S","E","L","E","C","T"," ","1">>

\* "SHOW TABLES"
SqlShow ==
  <<"S","H","O","W"," ","T","A","B","L","E","S">>

\* "DESCRIBE t"
SqlDescribe ==
  <<"D","E","S","C","R","I","B","E"," ","t">>

\* "EXPLAIN SELECT 1"
SqlExplain ==
  <<"E","X","P","L","A","I","N"," ","S","E","L","E","C","T"," ","1">>

\* "WITH c AS (SELECT 1) SELECT 1"
SqlWith ==
  <<"W","I","T","H"," ","c"," ","A","S"," ","(","S","E","L","E","C","T"," ","1",")"," ","S","E","L","E","C","T"," ","1">>

\* ""
SqlEmpty ==
  <<>>

\* "INSERT INTO t VALUES (1)"
SqlInsert ==
  <<"I","N","S","E","R","T"," ","I","N","T","O"," ","t"," ","V","A","L","U","E","S"," ","(","1",")">>

\* "UPDATE t SET c = 1"
SqlUpdate ==
  <<"U","P","D","A","T","E"," ","t"," ","S","E","T"," ","c"," ","="," ","1">>

\* "DELETE FROM t WHERE c IN (SELECT 1)"
SqlDelete ==
  <<"D","E","L","E","T","E"," ","F","R","O","M"," ","t"," ","W","H","E","R","E"," ","c"," ","I","N"," ","(","S","E","L","E","C","T"," ","1",")">>

\* "DROP TABLE t"
SqlDrop ==
  <<"D","R","O","P"," ","T","A","B","L","E"," ","t">>

\* "SELECT 1; DROP TABLE t"
SqlMulti ==
  <<"S","E","L","E","C","T"," ","1",";"," ","D","R","O","P"," ","T","A","B","L","E"," ","t">>

\* "-- ok\nDROP TABLE t"
SqlComment ==
  <<"-","-"," ","o","k","\n","D","R","O","P"," ","T","A","B","L","E"," ","t">>

\* "-- ok\nSELECT 1"
SqlCommentSelect ==
  <<"-","-"," ","o","k","\n","S","E","L","E","C","T"," ","1">>

\* "SHOWX t"
SqlShowx ==
  <<"S","H","O","W","X"," ","t">>

\* "SEL"
SqlTruncated ==
  <<"S","E","L">>


Bodies ==
  { SqlSelect, SqlShow, SqlDescribe, SqlExplain, SqlWith, SqlEmpty, SqlInsert,
    SqlUpdate, SqlDelete, SqlDrop, SqlMulti, SqlComment, SqlCommentSelect,
    SqlShowx, SqlTruncated }

\* the letter cases a caller may write a statement in
AsWritten(s) == s
AllLower(s) == [i \in 1..Len(s) |-> LowerChar(s[i])]
Alternating(s) ==
  [i \in 1..Len(s) |-> IF i % 2 = 1 THEN LowerChar(s[i]) ELSE UpperChar(s[i])]

CaseVariants(s) == {AsWritten(s), AllLower(s), Alternating(s)}

\* white-space runs of at most MaxPad characters, each of one character
RECURSIVE Repeat(_, _)
Repeat(c, n) == IF n = 0 THEN <<>> ELSE <<c>> \o Repeat(c, n - 1)

Pads == {Repeat(c, n) : c \in WhiteSpace, n \in 0..MaxPad}

\* every statement text a caller submits in the gate specification
SqlInputs ==
  {lead \o v \o trail : lead \in Pads, trail \in Pads,
                        v \in UNION {CaseVariants(b) : b \in Bodies}}

\* the statement a caller may submit besides the one under test
FixedInputs == {SqlSelect}

\* ------------------------------------------------------- error messages
\* Array.prototype.join
RECURSIVE join(_, _)
join(parts, separator) ==
  IF Len(parts) = 0 THEN <<>>
  ELSE IF Len(parts) = 1 THEN parts[1]
  ELSE parts[1] \o separator \o join(Tail(parts), separator)

\* "Only readonly queries are allowed. Query must start with: "
ReadonlyMessageHead ==
  <<"O","n","l","y"," ","r","e","a","d","o","n","l","y"," ","q","u","e","r",
    "i","e","s"," ","a","r","e"," ","a","l","l","o","w","e","d","."," ","Q",
    "u","e","r","y"," ","m","u","s","t"," ","s","t","a","r","t"," ","w","i",
    "t","h",":"," ">>

\* the Error validateReadonlyQuery throws
ReadonlyMessage ==
  ReadonlyMessageHead \o join(READONLY_QUERY_PREFIXES, <<",", " ">>)

\* "Failed to connect to Vertica: "
ConnectFailedHead ==
  <<"F","a","i","l","e","d"," ","t","o"," ","c","o","n","n","e","c","t"," ",
    "t","o"," ","V","e","r","t","i","c","a",":"," ">>

\* "Query execution failed: "
QueryFailedHead ==
  <<"Q","u","e","r","y"," ","e","x","e","c","u","t","i","o","n"," ","f","a",
    "i","l","e","d",":"," ">>

\* "Stream query failed: "
StreamFailedHead ==
  <<"S","t","r","e","a","m"," ","q","u","e","r","y"," ","f","a","i","l","e",
    "d",":"," ">>

\* "Syntax error in SQL"
MsgSyntaxError ==
  <<"S","y","n","t","a","x"," ","e","r","r","o","r"," ","i","n"," ","S","Q",
    "L">>

\* "Connection failed"
MsgConnectionFailed ==
  <<"C","o","n","n","e","c","t","i","o","n"," ","f","a","i","l","e","d">>

\* the messages the driver rejects a promise with
DriverMessages == {MsgSyntaxError, MsgConnectionFailed}

\* "Cannot read properties of undefined (reading 'rows')": what reading
\* result.rows throws when the driver resolved with undefined
MsgTypeError ==
  <<"C","a","n","n","o","t"," ","r","e","a","d"," ","p","r","o","p","e","r",
    "t","i","e","s"," ","o","f"," ","u","n","d","e","f","i","n","e","d"," ",
    "(","r","e","a","d","i","n","g"," ","'","r","o","w","s","'",")">>

\* ------------------------------------------------- the driver's results
ResultFields == {"rows", "rowCount", "fields", "command"}

\* what connection.query() resolves with: undefined, or an object that has
\* some of the fields of a result
DriverResponses ==
  {[defined |-> FALSE, has |-> {}]}
    \cup [defined : {TRUE}, has : SUBSET ResultFields]

WellFormed == [defined |-> TRUE, has |-> ResultFields]

\* the field descriptions of the one-column table
FieldsOf == <<"id">>

\* result.f || default
OrDefault(r, f, value, default) == IF f \in r.has THEN value ELSE default

\* the QueryResult executeQuery builds from the driver's result
QueryResultOf(r, rows) ==
  [rows |-> OrDefault(r, "rows", rows, <<>>),
   rowCount |-> OrDefault(r, "rowCount", Len(rows), 0),
   fields |-> OrDefault(r, "fields", FieldsOf, <<>>),
   command |-> OrDefault(r, "command", "SELECT", "")]

NoResult == [rows |-> <<>>, rowCount |-> 0, fields |-> <<>>, command |-> ""]

\* ------------------------------------------------------------ the state
VARIABLES
  input,           \* the statement and stream options under test
  config,          \* the VerticaConfig the service was constructed with
  data,            \* the rows the statement selects, in result order
  connection,      \* this.connection: 0 is null, else the client's number
  clientsCreated,  \* how many times new Client(...) ran
  client,          \* the client connect() created last in this service
  calls,           \* operations started on the service so far
  op,              \* the operation last started
  pc,              \* where that operation stands
  sql,             \* its statement text
  options,         \* its StreamQueryOptions
  offset,          \* streamQuery local
  batchNumber,     \* streamQuery local
  totalFetched,    \* streamQuery local
  queries,         \* what it passed to connection.query(), in order
  yielded,         \* the StreamQueryResults handed to the consumer, in order
  outcome,         \* how it ended
  error,           \* the message of the Error it threw, <<>> if none
  result,          \* the QueryResult executeQuery returned
  requests,        \* next() calls the generator has received
  rejected,        \* driver promises that rejected during the operation
  tool,            \* the tool invocation that is running
  parked           \* the other invocation and its service, while it waits

vars ==
  <<input, config, data, connection, clientsCreated, client, calls, op, pc, sql, options,
    offset, batchNumber, totalFetched, queries, yielded, outcome, error,
    result, requests, rejected, tool, parked>>

toolVars == <<tool, parked>>

\* the service, its driver, the database and the environment
serviceVars ==
  <<input, config, data, connection, clientsCreated, client, calls, op, pc,
    sql, options, offset, batchNumber, totalFetched, queries, yielded, outcome,
    error, result, requests, rejected>>

\* options.maxRows === undefined; a falsy maxRows is "no cap" for the code
NoCap == 0

NoOptions == [batchSize |-> 0, maxRows |-> NoCap]

ReadonlyModes == {"true", "false", "absent"}

\* the table: rows 1..n, each row standing for itself
Table(n) == [i \in 1..n |-> i]

Min(a, b) == IF a <= b THEN a ELSE b

\* a database that answers every page query with the first window
Page_IgnoresOffset(rows, limit, off) == SubSeq(rows, 1, Min(limit, Len(rows)))

\* what the database answers to "<sql> LIMIT limit OFFSET off"
Page(rows, limit, off) == SubSeq(rows, off + 1, Min(off + limit, Len(rows)))

LimitText == <<" ","L","I","M","I","T"," ">>
OffsetText == <<" ","O","F","F","S","E","T"," ">>

\* the page text with OFFSET counting pages, not rows
limitedSql_PageIndex(s, batchSize, off) ==
  s \o LimitText \o NumberToString(batchSize)
    \o OffsetText \o NumberToString(off \div batchSize)

\* `${sql} LIMIT ${batchSize} OFFSET ${offset}`
limitedSql(s, batchSize, off) ==
  s \o LimitText \o NumberToString(batchSize)
    \o OffsetText \o NumberToString(off)

\* one call of connection.query(): the text, and the window the text asks for
\* (whole is TRUE for executeQuery, which sends the statement unchanged)
PlainQuery(s) == [text |-> s, whole |-> TRUE, limit |-> 0, offset |-> 0]
PageQuery(s, batchSize, off) ==
  [text |-> limitedSql(s, batchSize, off), whole |-> FALSE,
   limit |-> batchSize, offset |-> off]

FirstQuery(o, s, opts) ==
  IF o = "executeQuery" THEN PlainQuery(s)
  ELSE PageQuery(s, opts.batchSize, 0)

\* hasMore with the cap compared by <= : a cap just reached still has more
hasMoreOf_CapInclusive(len, batchSize, maxRows, fetched) ==
  /\ len = batchSize
  /\ (maxRows = NoCap \/ fetched <= maxRows)

\* hasMore without the !maxRows test: an absent cap compares as reached
hasMoreOf_CapRequired(len, batchSize, maxRows, fetched) ==
  /\ len = batchSize
  /\ fetched < maxRows

\* result.rows.length === batchSize && (!maxRows || totalFetched < maxRows)
hasMoreOf(len, batchSize, maxRows, fetched) ==
  /\ len = batchSize
  /\ (maxRows = NoCap \/ fetched < maxRows)

\* totalBatches as batchNumber + 1 in every batch
totalBatchesOf_AlwaysNext(hasMore, n) == n + 1

\* totalBatches as the number of batches delivered so far
totalBatchesOf_SoFar(hasMore, n) == n

\* totalBatches: hasMore ? batchNumber + 1 : batchNumber
totalBatchesOf(hasMore, n) == IF hasMore THEN n + 1 ELSE n

\* !hasMore || (maxRows && totalFetched >= maxRows)
breakAfterYield(hasMore, maxRows, fetched) ==
  \/ ~hasMore
  \/ (maxRows # NoCap /\ fetched >= maxRows)

\* ------------------------------------------------------------- actions
\* the call's locals and history, as they are when an operation starts
StartOperation(o, s, opts) ==
  /\ pc = "idle"
  /\ calls < MaxCalls
  /\ calls' = calls + 1
  /\ op' = o
  /\ sql' = s
  /\ options' = opts
  /\ offset' = 0
  /\ batchNumber' = 0
  /\ totalFetched' = 0
  /\ yielded' = <<>>
  /\ result' = NoResult
  /\ rejected' = 0
  /\ UNCHANGED <<input, config, data>>

\* connect() started before the gate is evaluated
ConnectThenValidate(o, s, opts) ==
  IF connection # 0
  THEN IF validateReadonlyQueryThrows(s)
       THEN /\ pc' = "idle"
            /\ outcome' = "ReadonlyViolation"
            /\ error' = ReadonlyMessage
            /\ queries' = <<>>
            /\ UNCHANGED <<connection, clientsCreated, client>>
       ELSE /\ pc' = "querying"
            /\ outcome' = "none"
            /\ error' = <<>>
            /\ queries' = <<FirstQuery(o, s, opts)>>
            /\ UNCHANGED <<connection, clientsCreated, client>>
  ELSE /\ clientsCreated' = clientsCreated + 1
       /\ client' = clientsCreated'
       /\ queries' = <<>>
       /\ UNCHANGED connection
       /\ IF validateReadonlyQueryThrows(s)
          THEN pc' = "idle" /\ outcome' = "ReadonlyViolation"
               /\ error' = ReadonlyMessage
          ELSE pc' = "connecting" /\ outcome' = "none" /\ error' = <<>>

\* connect() without its "if (this.connection) return": a client per call
ValidateThenConnect_Reconnects(o, s, opts) ==
  IF validateReadonlyQueryThrows(s)
  THEN /\ pc' = "idle"
       /\ outcome' = "ReadonlyViolation"
       /\ error' = ReadonlyMessage
       /\ queries' = <<>>
       /\ UNCHANGED <<connection, clientsCreated, client>>
  ELSE /\ pc' = "connecting"
       /\ outcome' = "none"
       /\ error' = <<>>
       /\ queries' = <<>>
       /\ clientsCreated' = clientsCreated + 1
       /\ client' = clientsCreated'
       /\ UNCHANGED connection

\* this.validateReadonlyQuery(sql); await this.connect(); ... query(...)
\* up to the first await that does not resolve at once:
\*   the gate throws                      -> the operation ends, nothing else ran
\*   connect() returns (already connected) -> the first query is sent
\*   otherwise                             -> new Client, client.connect() pending
ValidateThenConnect(o, s, opts) ==
  IF validateReadonlyQueryThrows(s)
  THEN /\ pc' = "idle"
       /\ outcome' = "ReadonlyViolation"
       /\ error' = ReadonlyMessage
       /\ queries' = <<>>
       /\ UNCHANGED <<connection, clientsCreated, client>>
  ELSE IF connection # 0
  THEN /\ pc' = "querying"
       /\ outcome' = "none"
       /\ error' = <<>>
       /\ queries' = <<FirstQuery(o, s, opts)>>
       /\ UNCHANGED <<connection, clientsCreated, client>>
  ELSE /\ pc' = "connecting"
       /\ outcome' = "none"
       /\ error' = <<>>
       /\ queries' = <<>>
       /\ clientsCreated' = clientsCreated + 1
       /\ client' = clientsCreated'
       /\ UNCHANGED connection

\* service.executeQuery(sql)
ExecuteQuery(s) ==
  /\ StartOperation("executeQuery", s, NoOptions)
  /\ ValidateThenConnect("executeQuery", s, NoOptions)
  /\ requests' = 0

\* service.streamQuery(sql, options): creates the generator, runs none of it
StreamQuery(s, opts) ==
  /\ StartOperation("streamQuery", s, opts)
  /\ pc' = "created"
  /\ outcome' = "none"
  /\ error' = <<>>
  /\ queries' = <<>>
  /\ requests' = 0
  /\ UNCHANGED <<connection, clientsCreated, client>>

\* the consumer's first next(): the generator body starts
NextFirst ==
  /\ op = "streamQuery"
  /\ pc = "created"
  /\ requests' = requests + 1
  /\ ValidateThenConnect(op, sql, options)
  /\ UNCHANGED <<input, config, data, calls, op, sql, options, offset, batchNumber,
                 totalFetched, yielded, result, rejected>>

\* the consumer's next() after a batch: the generator resumes after its yield
NextAfterYield ==
  /\ op = "streamQuery"
  /\ pc = "yielded"
  /\ requests' = requests + 1
  /\ IF breakAfterYield(yielded[Len(yielded)].hasMore, options.maxRows,
                        totalFetched)
     THEN /\ pc' = "idle"
          /\ outcome' = "end"
          /\ UNCHANGED <<offset, queries>>
     ELSE /\ offset' = offset + options.batchSize
          /\ queries' =
               Append(queries, PageQuery(sql, options.batchSize, offset'))
          /\ pc' = "querying"
          /\ UNCHANGED outcome
  /\ UNCHANGED <<input, config, data, connection, clientsCreated, client, calls, op, sql,
                 options, batchNumber, totalFetched, yielded, error, result,
                 rejected>>

\* the consumer leaves its for-await loop, which calls the generator's
\* return(): the generator, suspended at its yield, completes
Return ==
  /\ op = "streamQuery"
  /\ pc = "yielded"
  /\ pc' = "idle"
  /\ outcome' = "returned"
  /\ UNCHANGED <<input, config, data, connection, clientsCreated, client, calls, op, sql,
                 options, offset, batchNumber, totalFetched, queries, yielded,
                 error, result, requests, rejected>>

\* await client.connect() resolves: this.connection = client, then the
\* operation sends its first query
ConnectResolves ==
  /\ pc = "connecting"
  /\ connection' = client
  /\ queries' = <<FirstQuery(op, sql, options)>>
  /\ pc' = "querying"
  /\ UNCHANGED <<input, config, data, clientsCreated, client, calls, op, sql, options,
                 offset, batchNumber, totalFetched, yielded, outcome, error,
                 result, requests, rejected>>

\* await client.connect() rejects: connect() throws "Failed to connect ..."
ConnectRejects ==
  /\ pc = "connecting"
  /\ pc' = "idle"
  /\ outcome' = "ConnectionFailure"
  /\ error' = ConnectFailedHead \o input.driverMessage
  /\ rejected' = rejected + 1
  /\ UNCHANGED <<input, config, data, connection, clientsCreated, client, calls, op, sql,
                 options, offset, batchNumber, totalFetched, queries, yielded,
                 result, requests>>

\* the batch numbered before batchNumber++ took effect
StreamBatch_ZeroBased(rows, n, hasMore) ==
  [batch |-> rows, batchNumber |-> n - 1,
   totalBatches |-> totalBatchesOf(hasMore, n), hasMore |-> hasMore]

\* the StreamQueryResult built from one non-empty page
StreamBatch(rows, n, hasMore) ==
  [batch |-> rows, batchNumber |-> n,
   totalBatches |-> totalBatchesOf(hasMore, n), hasMore |-> hasMore]

\* the catch block of executeQuery and of streamQuery
QueryFailed(o, message) ==
  /\ pc' = "idle"
  /\ outcome' = "QueryExecution"
  /\ error' = (IF o = "executeQuery" THEN QueryFailedHead
               ELSE StreamFailedHead) \o message

\* executeQuery after its query resolved with r
ExecuteReturns(r) ==
  /\ IF r.defined
     THEN /\ pc' = "idle"
          /\ outcome' = "result"
          /\ result' = QueryResultOf(r, data)
          /\ UNCHANGED error
     ELSE /\ QueryFailed(op, MsgTypeError)
          /\ UNCHANGED result
  /\ UNCHANGED <<batchNumber, totalFetched, yielded, queries>>

\* the loop body with totalFetched = result.rows.length in place of +=
StreamPage_NoAccumulate(r) ==
  LET q == queries[Len(queries)]
      rows == Page(data, q.limit, q.offset)
  IN  /\ IF ~r.defined
         THEN /\ QueryFailed(op, MsgTypeError)
              /\ UNCHANGED <<batchNumber, totalFetched, yielded>>
         ELSE IF "rows" \notin r.has \/ Len(rows) = 0
         THEN /\ pc' = "idle"
              /\ outcome' = "end"
              /\ UNCHANGED <<batchNumber, totalFetched, yielded, error>>
         ELSE /\ batchNumber' = batchNumber + 1
              /\ totalFetched' = Len(rows)
              /\ yielded' =
                   Append(yielded,
                          StreamBatch(rows, batchNumber',
                                      hasMoreOf(Len(rows), options.batchSize,
                                                options.maxRows,
                                                totalFetched')))
              /\ pc' = "yielded"
              /\ UNCHANGED <<outcome, error>>
      /\ UNCHANGED <<result, queries>>

\* the loop body sending the query of the next page before it yields
StreamPage_Prefetch(r) ==
  LET q == queries[Len(queries)]
      rows == Page(data, q.limit, q.offset)
  IN  /\ IF ~r.defined
         THEN /\ QueryFailed(op, MsgTypeError)
              /\ UNCHANGED <<batchNumber, totalFetched, yielded, queries>>
         ELSE IF "rows" \notin r.has \/ Len(rows) = 0
         THEN /\ pc' = "idle"
              /\ outcome' = "end"
              /\ UNCHANGED <<batchNumber, totalFetched, yielded, error,
                             queries>>
         ELSE /\ batchNumber' = batchNumber + 1
              /\ totalFetched' = totalFetched + Len(rows)
              /\ yielded' =
                   Append(yielded,
                          StreamBatch(rows, batchNumber',
                                      hasMoreOf(Len(rows), options.batchSize,
                                                options.maxRows,
                                                totalFetched')))
              /\ queries' =
                   Append(queries,
                          PageQuery(sql, options.batchSize,
                                    q.offset + options.batchSize))
              /\ pc' = "yielded"
              /\ UNCHANGED <<outcome, error>>
      /\ UNCHANGED result

\* streamQuery after a page query resolved with r: the rest of the loop body
\* up to the yield, the break on an empty page included
StreamPage(r) ==
  LET q == queries[Len(queries)]
      rows == Page(data, q.limit, q.offset)
  IN  /\ IF ~r.defined
         THEN /\ QueryFailed(op, MsgTypeError)
              /\ UNCHANGED <<batchNumber, totalFetched, yielded>>
         ELSE IF "rows" \notin r.has \/ Len(rows) = 0
         THEN /\ pc' = "idle"
              /\ outcome' = "end"
              /\ UNCHANGED <<batchNumber, totalFetched, yielded, error>>
         ELSE /\ batchNumber' = batchNumber + 1
              /\ totalFetched' = totalFetched + Len(rows)
              /\ yielded' =
                   Append(yielded,
                          StreamBatch(rows, batchNumber',
                                      hasMoreOf(Len(rows), options.batchSize,
                                                options.maxRows,
                                                totalFetched')))
              /\ pc' = "yielded"
              /\ UNCHANGED <<outcome, error>>
      /\ UNCHANGED <<result, queries>>

\* await connection.query(...) resolves
QueryResolves ==
  /\ pc = "querying"
  /\ IF op = "executeQuery"
     THEN ExecuteReturns(input.response)
     ELSE StreamPage(input.response)
  /\ UNCHANGED <<input, config, data, connection, clientsCreated, client, calls, op, sql,
                 options, offset, requests, rejected>>

\* a rejected query sent once more instead of failing the operation
QueryRejects_Retry ==
  /\ pc = "querying"
  /\ queries' = Append(queries, queries[Len(queries)])
  /\ rejected' = rejected + 1
  /\ UNCHANGED <<input, config, data, connection, clientsCreated, client, calls, op, pc,
                 sql, options, offset, batchNumber, totalFetched, yielded,
                 outcome, error, result, requests>>

\* await connection.query(...) rejects: "Query execution failed: ..." from
\* executeQuery, "Stream query failed: ..." from streamQuery
QueryRejects ==
  /\ pc = "querying"
  /\ QueryFailed(op, input.driverMessage)
  /\ rejected' = rejected + 1
  /\ UNCHANGED <<input, config, data, connection, clientsCreated, client, calls, op, sql,
                 options, offset, batchNumber, totalFetched, queries, yielded,
                 result, requests>>

\* isConnected(): this.connection !== null
isConnected == connection # 0

\* how the driver's end() may settle
EndOutcomes == {"resolved", "rejected"}

\* disconnect() without its finally block: a failing end() leaves the
\* connection set
EndSettles_NoFinally(how) ==
  /\ pc = "idle"
  /\ connection # 0
  /\ connection' = IF how = "rejected" THEN connection ELSE 0
  /\ UNCHANGED <<input, config, data, clientsCreated, client, calls, op, pc, sql, options,
                 offset, batchNumber, totalFetched, queries, yielded, outcome,
                 error, result, requests, rejected>>

\* await this.connection.end() settles inside disconnect(): a rejection is
\* caught and logged, and the finally block sets this.connection = null
EndSettles(how) ==
  /\ pc = "idle"
  /\ connection # 0
  /\ connection' = 0
  /\ UNCHANGED <<input, config, data, clientsCreated, client, calls, op, pc, sql, options,
                 offset, batchNumber, totalFetched, queries, yielded, outcome,
                 error, result, requests, rejected>>

\* service.disconnect() while connected (not connected, it does nothing)
Disconnect == \E how \in EndOutcomes : EndSettles(how)

\* the rows of the table that another session inserted: the rows of the
\* table at the start are 1..n, an inserted row is numbered 0, -1, ...
Inserted(rows) == Cardinality({i \in 1..Len(rows) : rows[i] <= 0})

\* another session of the database inserts a row that sorts first, while
\* the stream is between two of its page queries or waits for a page
InsertRow ==
  /\ op = "streamQuery"
  /\ pc \in {"querying", "yielded"}
  /\ Inserted(data) < MaxInserted
  /\ data' = <<0 - Inserted(data)>> \o data
  /\ UNCHANGED <<input, config, connection, clientsCreated, client, calls, op,
                 pc, sql, options, offset, batchNumber, totalFetched, queries,
                 yielded, outcome, error, result, requests, rejected>>

\* another session of the database deletes the row that sorts first
DeleteRow ==
  /\ op = "streamQuery"
  /\ pc \in {"querying", "yielded"}
  /\ data # <<>>
  /\ data' = Tail(data)
  /\ UNCHANGED <<input, config, connection, clientsCreated, client, calls, op,
                 pc, sql, options, offset, batchNumber, totalFetched, queries,
                 yielded, outcome, error, result, requests, rejected>>

\* ----------------------------------------------------------- the tools
\* if (batches.length > 100) break
MAX_BATCHES == 100

\* batchSize: z.number().int().min(1).max(10000).default(1000)
MIN_BATCH_SIZE == 1
MAX_BATCH_SIZE == 10000
DEFAULT_BATCH_SIZE == 1000

\* maxRows: z.number().int().min(1).max(1000000).optional()
MIN_STREAM_ROWS == 1
MAX_STREAM_ROWS == 1000000

ToolNames == {"execute_query", "stream_query", "get_table_structure"}

\* an optional number of the tool's input
Absent == [set |-> FALSE, value |-> 0]
Given(n) == [set |-> TRUE, value |-> n]

\* the schema without its .max() bounds
parseInputThrows_NoUpperBound(name, args) ==
  /\ name \in {"execute_query", "stream_query"}
  /\ \/ ~args.hasSql
     \/ /\ name = "stream_query"
        /\ \/ /\ args.batchSize.set
              /\ args.batchSize.value < MIN_BATCH_SIZE
           \/ /\ args.maxRows.set
              /\ args.maxRows.value < MIN_STREAM_ROWS

\* TRUE iff this.parseInput(input) throws; get_table_structure has none
parseInputThrows(name, args) ==
  /\ name \in {"execute_query", "stream_query"}
  /\ \/ ~args.hasSql
     \/ /\ name = "stream_query"
        /\ \/ /\ args.batchSize.set
              /\ args.batchSize.value \notin MIN_BATCH_SIZE..MAX_BATCH_SIZE
           \/ /\ args.maxRows.set
              /\ args.maxRows.value \notin MIN_STREAM_ROWS..MAX_STREAM_ROWS

\* the message of the ZodError schema.parse throws: the list of its issues,
\* of which the path of the first issue is kept
parseInputMessage(name, args) ==
  IF ~args.hasSql THEN <<"s","q","l">>
  ELSE IF args.batchSize.set
          /\ args.batchSize.value \notin MIN_BATCH_SIZE..MAX_BATCH_SIZE
  THEN <<"b","a","t","c","h","S","i","z","e">>
  ELSE <<"m","a","x","R","o","w","s">>

\* the options stream_query passes to streamQuery: batchSize is
\* parsed.batchSize || 1000 after the schema's default, maxRows is
\* parsed.maxRows
streamOptionsOf(args) ==
  [batchSize |-> IF args.batchSize.set /\ args.batchSize.value # 0
                 THEN args.batchSize.value ELSE DEFAULT_BATCH_SIZE,
   maxRows |-> IF args.maxRows.set THEN args.maxRows.value ELSE NoCap]

\* the first statement of getTableStructure, shortened to one column
columnsQuery ==
  <<"\n"," ","S","E","L","E","C","T"," ","c","o","l","u","m","n","_","n",
    "a","m","e"," ","F","R","O","M"," ","v","_","c","a","t","a","l","o","g",
    ".","c","o","l","u","m","n","s"," ","W","H","E","R","E"," ","t","a","b",
    "l","e","_","n","a","m","e"," ","="," ","?","\n">>

\* the second statement of getTableStructure, shortened to one column
tableQuery ==
  <<"\n"," ","S","E","L","E","C","T"," ","o","w","n","e","r","_","n","a",
    "m","e"," ","F","R","O","M"," ","v","_","c","a","t","a","l","o","g",".",
    "t","a","b","l","e","s"," ","W","H","E","R","E"," ","t","a","b","l","e",
    "_","n","a","m","e"," ","="," ","?","\n">>

\* "Table public.t not found"
MsgTableNotFound ==
  <<"T","a","b","l","e"," ","p","u","b","l","i","c",".","t"," ","n","o","t",
    " ","f","o","u","n","d">>

\* "Missing required environment variables: VERTICA_HOST"
MsgMissingEnv ==
  <<"M","i","s","s","i","n","g"," ","r","e","q","u","i","r","e","d"," ","e",
    "n","v","i","r","o","n","m","e","n","t"," ","v","a","r","i","a","b","l",
    "e","s",":"," ","V","E","R","T","I","C","A","_","H","O","S","T">>

\* the JSON object a tool returns, with the fields the tools fill in
NoEnvelope ==
  [success |-> FALSE, error |-> <<>>, query |-> <<>>, rows |-> <<>>,
   totalRows |-> 0, batchCount |-> 0, batches |-> <<>>]

\* a failure envelope that reports the batches accumulated before the error
Failure_KeepsBatches(message, query) ==
  [NoEnvelope EXCEPT !.error = message, !.query = query,
                     !.batchCount = Len(tool.batches),
                     !.batches = tool.batches, !.totalRows = tool.totalRows]

\* catch: { success: false, error, query, executedAt }
Failure(message, query) ==
  [NoEnvelope EXCEPT !.error = message, !.query = query]

QuerySuccess(query, res) ==
  [NoEnvelope EXCEPT !.success = TRUE, !.query = query, !.rows = res.rows,
                     !.totalRows = res.rowCount]

StreamSuccess(query, batches, totalRows) ==
  [NoEnvelope EXCEPT !.success = TRUE, !.query = query,
                     !.totalRows = totalRows, !.batchCount = Len(batches),
                     !.batches = batches]

\* the call handler has not answered the request
NoResponse == [kind |-> "none", isError |-> FALSE, body |-> NoEnvelope]

\* a tool invocation before execute() runs
NewInvocation(id) ==
  [id |-> id, name |-> "none", pc |-> "none", service |-> FALSE,
   batches |-> <<>>, totalRows |-> 0, envelope |-> NoEnvelope,
   disconnects |-> 0, clients |-> 0, cleanup |-> "none",
   thrown |-> <<>>, response |-> NoResponse]

\* the element stream_query pushes for one batch of the generator
BatchEntry(b) ==
  [batchNumber |-> b.batchNumber, rowCount |-> Len(b.batch),
   rows |-> b.batch, hasMore |-> b.hasMore]

\* the ceiling test with >= in place of >
exceedsCeiling_AtLimit(n) == n >= MAX_BATCHES

\* batches.length > 100
exceedsCeiling(n) == n > MAX_BATCHES

\* what the try block returns or the catch block builds once the awaited
\* service operation has settled
EnvelopeOf(name, args) ==
  CASE name = "execute_query" ->
         IF outcome = "result" THEN QuerySuccess(args.sql, result)
         ELSE Failure(error, args.sql)
    [] name = "stream_query" ->
         IF outcome \in {"end", "returned"}
         THEN StreamSuccess(args.sql, tool.batches, tool.totalRows)
         ELSE Failure(error, args.sql)
    [] OTHER ->
         IF outcome # "result" THEN Failure(error, <<>>)
         ELSE IF Len(result.rows) = 0 THEN Failure(MsgTableNotFound, <<>>)
         ELSE QuerySuccess(<<>>, result)

\* the envelope is kept and the finally block is skipped on the catch path
AfterSettle_NoFinally(t, env, connected) ==
  IF env.success
  THEN [t EXCEPT !.envelope = env, !.disconnects = @ + 1,
                 !.pc = IF connected THEN "cleanup" ELSE "returned"]
  ELSE [t EXCEPT !.envelope = env, !.pc = "returned"]

\* return <envelope> in try or catch, then finally: await
\* service.disconnect(), which awaits end() only if a connection is open
AfterSettle(t, env, connected) ==
  [t EXCEPT !.envelope = env, !.disconnects = @ + 1,
            !.pc = IF connected THEN "cleanup" ELSE "returned"]

\* a finally block that lets the failure of the cleanup escape
AfterCleanup_Rethrows(t, how) ==
  IF how = "rejected"
  THEN [t EXCEPT !.pc = "threw", !.cleanup = how, !.envelope = NoEnvelope]
  ELSE [t EXCEPT !.pc = "returned", !.cleanup = how]

\* end() resolved or rejected: disconnect() swallows the rejection
\* (console.warn), the finally block of execute() is done, execute() returns
\* the envelope it had built
AfterCleanup(t, how) == [t EXCEPT !.pc = "returned", !.cleanup = how]

\* the clients this step created, added to the invocation's count
CountClients(t) ==
  [t EXCEPT !.clients = @ + (clientsCreated' - clientsCreated)]

\* execute(input) up to its first await: parseInput, getDatabaseConfig,
\* new VerticaService(config), and the start of the service operation
ToolStart(name, args) ==
  /\ tool.pc = "none"
  /\ UNCHANGED parked
  /\ IF parseInputThrows(name, args)
     THEN /\ tool' = [tool EXCEPT !.name = name, !.pc = "threw",
                                  !.thrown = parseInputMessage(name, args)]
          /\ UNCHANGED serviceVars
     ELSE IF input.env = "unset"
     THEN /\ tool' = [tool EXCEPT !.name = name, !.pc = "returned",
                                  !.envelope =
                                     Failure(MsgMissingEnv,
                                             IF name = "get_table_structure"
                                             THEN <<>> ELSE args.sql)]
          /\ UNCHANGED serviceVars
     ELSE /\ CASE name = "execute_query" -> ExecuteQuery(args.sql)
              [] name = "stream_query" ->
                   StreamQuery(args.sql, streamOptionsOf(args))
              [] OTHER -> ExecuteQuery(columnsQuery)
          /\ tool' = [CountClients(tool) EXCEPT !.name = name,
                                                !.pc = "awaiting",
                                                !.service = TRUE]

\* for await (...): the first next() of the generator
ToolNextFirst ==
  /\ tool.pc = "awaiting"
  /\ NextFirst
  /\ tool' = CountClients(tool)
  /\ UNCHANGED parked

\* the body of the for-await loop for one batch, and what follows it: the
\* break, which returns the generator, or the next next()
ToolConsumes ==
  /\ tool.pc = "awaiting"
  /\ pc = "yielded"
  /\ tool' = [tool EXCEPT
                !.batches = Append(@, BatchEntry(yielded[Len(yielded)])),
                !.totalRows = @ + Len(yielded[Len(yielded)].batch)]
  /\ IF exceedsCeiling(Len(tool'.batches)) THEN Return ELSE NextAfterYield
  /\ UNCHANGED parked

\* getTableStructure after its first query: the second executeQuery
ToolSecondQuery ==
  /\ tool.name = "get_table_structure"
  /\ tool.pc = "awaiting"
  /\ outcome = "result"
  /\ calls = 1
  /\ ExecuteQuery(tableQuery)
  /\ tool' = CountClients(tool)
  /\ UNCHANGED parked

AwaitConnectResolves ==
  tool.pc = "awaiting" /\ ConnectResolves /\ UNCHANGED toolVars

AwaitConnectRejects ==
  tool.pc = "awaiting" /\ ConnectRejects /\ UNCHANGED toolVars

AwaitQueryResolves ==
  tool.pc = "awaiting" /\ QueryResolves /\ UNCHANGED toolVars

AwaitQueryRejects ==
  tool.pc = "awaiting" /\ QueryRejects /\ UNCHANGED toolVars

\* the awaited service operation has settled: the envelope is built (return
\* in try, or catch) and the finally block calls disconnect()
ToolSettles ==
  /\ tool.pc = "awaiting"
  /\ pc = "idle"
  /\ ~(tool.name = "get_table_structure" /\ outcome = "result" /\ calls = 1)
  /\ tool' = AfterSettle(tool, EnvelopeOf(tool.name, input.args),
                         connection # 0)
  /\ UNCHANGED serviceVars
  /\ UNCHANGED parked

\* await this.connection.end() settles
ToolDisconnected ==
  /\ tool.pc = "cleanup"
  /\ \E how \in EndOutcomes :
        EndSettles(how) /\ tool' = AfterCleanup(tool, how)
  /\ UNCHANGED parked

\* the handler without its try/catch: what execute() throws leaves the
\* handler as a rejection
HandlerResponse_NoCatch(t) ==
  IF t.pc = "threw"
  THEN [kind |-> "rejected", isError |-> FALSE, body |-> NoEnvelope]
  ELSE [kind |-> "result", isError |-> FALSE, body |-> t.envelope]

\* try { result = await tool.execute(args); return { content: result } }
\* catch (error) { return { content: { success: false, error: message,
\* executedAt }, isError: true } }
HandlerResponse(t) ==
  IF t.pc = "threw"
  THEN [kind |-> "error", isError |-> TRUE, body |-> Failure(t.thrown, <<>>)]
  ELSE [kind |-> "result", isError |-> FALSE, body |-> t.envelope]

\* await tool.execute(...) has settled: the handler returns its response
HandlerResponds ==
  /\ tool.pc \in {"returned", "threw"}
  /\ tool.response.kind = "none"
  /\ tool' = [tool EXCEPT !.response = HandlerResponse(tool)]
  /\ UNCHANGED serviceVars
  /\ UNCHANGED parked

\* the state of the running invocation's service
ServiceState ==
  [connection |-> connection, client |-> client, calls |-> calls, op |-> op,
   pc |-> pc, sql |-> sql, options |-> options, offset |-> offset,
   batchNumber |-> batchNumber, totalFetched |-> totalFetched,
   queries |-> queries, yielded |-> yielded, outcome |-> outcome,
   error |-> error, result |-> result, requests |-> requests,
   rejected |-> rejected]

\* the event loop turns to the other invocation: each invocation has the
\* service it constructed; the database, the environment and the numbering
\* of the clients are common to both
Switch ==
  /\ parked' = [tool |-> tool, svc |-> ServiceState]
  /\ tool' = parked.tool
  /\ connection' = parked.svc.connection
  /\ client' = parked.svc.client
  /\ calls' = parked.svc.calls
  /\ op' = parked.svc.op
  /\ pc' = parked.svc.pc
  /\ sql' = parked.svc.sql
  /\ options' = parked.svc.options
  /\ offset' = parked.svc.offset
  /\ batchNumber' = parked.svc.batchNumber
  /\ totalFetched' = parked.svc.totalFetched
  /\ queries' = parked.svc.queries
  /\ yielded' = parked.svc.yielded
  /\ outcome' = parked.svc.outcome
  /\ error' = parked.svc.error
  /\ result' = parked.svc.result
  /\ requests' = parked.svc.requests
  /\ rejected' = parked.svc.rejected
  /\ UNCHANGED <<input, config, data, clientsCreated>>

\* ------------------------------------------------------ specifications
StreamOptions ==
  [batchSize : 1..MaxBatchSize, maxRows : {NoCap} \cup (1..MaxCap)]

\* the connection settings the service is constructed with
ConfigHost == <<"l","o","c","a","l","h","o","s","t">>
ConfigDatabase == <<"t","e","s","t","d","b">>
ConfigUser == <<"t","e","s","t","u","s","e","r">>
ConfigPassword == <<"t","e","s","t","p","a","s","s">>

Configs ==
  {[readonlyMode |-> m, host |-> ConfigHost, port |-> 5433,
    database |-> ConfigDatabase, user |-> ConfigUser,
    password |-> ConfigPassword] : m \in ReadonlyModes}

InitService ==
  /\ config \in Configs
  /\ connection = 0
  /\ clientsCreated = 0
  /\ client = 0
  /\ calls = 0
  /\ op = "none"
  /\ pc = "idle"
  /\ sql = <<>>
  /\ options = NoOptions
  /\ offset = 0
  /\ batchNumber = 0
  /\ totalFetched = 0
  /\ queries = <<>>
  /\ yielded = <<>>
  /\ outcome = "none"
  /\ error = <<>>
  /\ result = NoResult
  /\ requests = 0
  /\ rejected = 0
  /\ tool = NewInvocation(1)
  /\ parked = [tool |-> NewInvocation(2), svc |-> ServiceState]

\* the service specifications have a caller in place of the tools
\* the gate specification: every statement text, one table, one option
Init ==
  /\ InitService
  /\ input \in [sql : SqlInputs,
                options : {[batchSize |-> 1, maxRows |-> NoCap]},
                response : {WellFormed},
                driverMessage : {MsgSyntaxError}]
  /\ data = Table(2)

Next ==
  \/ \E s \in {input.sql} \cup FixedInputs :
        ExecuteQuery(s) /\ UNCHANGED toolVars
  \/ \E s \in {input.sql} \cup FixedInputs :
        StreamQuery(s, input.options) /\ UNCHANGED toolVars
  \/ NextFirst /\ UNCHANGED toolVars
  \/ NextAfterYield /\ UNCHANGED toolVars
  \/ Return /\ UNCHANGED toolVars
  \/ ConnectResolves /\ UNCHANGED toolVars
  \/ ConnectRejects /\ UNCHANGED toolVars
  \/ QueryResolves /\ UNCHANGED toolVars
  \/ QueryRejects /\ UNCHANGED toolVars
  \/ Disconnect /\ UNCHANGED toolVars

Spec == Init /\ [][Next]_vars

\* the streaming specification: every table and option, few statements
InitStream ==
  /\ InitService
  /\ input \in [sql : {<<" ">> \o AllLower(SqlSelect), SqlDrop},
                options : StreamOptions,
                response : {WellFormed},
                driverMessage : {MsgSyntaxError}]
  /\ data \in {Table(n) : n \in 0..MaxData}

SpecStream == InitStream /\ [][Next]_vars

\* the streaming specification with the scheduling the code relies on: the
\* driver settles every promise it returned (the database answers, or the
\* connection breaks and the promise rejects), and the consumer's for-await
\* loop requests the next item for as long as it has not left the loop
Fairness ==
  /\ WF_vars(NextFirst /\ UNCHANGED toolVars)
  /\ WF_vars(NextAfterYield /\ UNCHANGED toolVars)
  /\ WF_vars((ConnectResolves \/ ConnectRejects) /\ UNCHANGED toolVars)
  /\ WF_vars((QueryResolves \/ QueryRejects) /\ UNCHANGED toolVars)

\* one statement the gate permits, every table and option
InitStreamFair ==
  /\ InitService
  /\ input \in [sql : {SqlSelect},
                options : StreamOptions,
                response : {WellFormed},
                driverMessage : {MsgSyntaxError}]
  /\ data \in {Table(n) : n \in 0..MaxData}

\* a service that runs one stream
NextOneStream ==
  \/ /\ calls = 0
     /\ StreamQuery(input.sql, input.options)
     /\ UNCHANGED toolVars
  \/ NextFirst /\ UNCHANGED toolVars
  \/ NextAfterYield /\ UNCHANGED toolVars
  \/ Return /\ UNCHANGED toolVars
  \/ ConnectResolves /\ UNCHANGED toolVars
  \/ ConnectRejects /\ UNCHANGED toolVars
  \/ QueryResolves /\ UNCHANGED toolVars
  \/ QueryRejects /\ UNCHANGED toolVars
  \/ Disconnect /\ UNCHANGED toolVars

SpecStreamFair == InitStreamFair /\ [][NextOneStream]_vars /\ Fairness

\* one stream without a cap over a table that other sessions write to
InitWrites ==
  /\ InitService
  /\ input \in [sql : {SqlSelect},
                options : [batchSize : 1..MaxBatchSize, maxRows : {NoCap}],
                response : {WellFormed},
                driverMessage : {MsgSyntaxError}]
  /\ data \in {Table(n) : n \in 0..MaxData}

NextWrites ==
  \/ /\ calls = 0
     /\ StreamQuery(input.sql, input.options)
     /\ UNCHANGED toolVars
  \/ NextFirst /\ UNCHANGED toolVars
  \/ NextAfterYield /\ UNCHANGED toolVars
  \/ Return /\ UNCHANGED toolVars
  \/ ConnectResolves /\ UNCHANGED toolVars
  \/ ConnectRejects /\ UNCHANGED toolVars
  \/ QueryResolves /\ UNCHANGED toolVars
  \/ QueryRejects /\ UNCHANGED toolVars
  \/ Disconnect /\ UNCHANGED toolVars
  \/ InsertRow /\ UNCHANGED toolVars
  \/ DeleteRow /\ UNCHANGED toolVars

SpecWrites == InitWrites /\ [][NextWrites]_vars

\* the driver specification: every shape of the driver's result and every
\* driver message, one permitted statement, a table of at most one row
InitDriver ==
  /\ InitService
  /\ input \in [sql : {SqlSelect},
                options : {[batchSize |-> 1, maxRows |-> NoCap]},
                response : DriverResponses,
                driverMessage : DriverMessages]
  /\ data \in {Table(0), Table(1)}

SpecDriver == InitDriver /\ [][Next]_vars

\* ------------------------------------- specifications of the tools
\* the inputs of the tools: a statement the gate permits and one it rejects,
\* batchSize and maxRows absent, at and beyond the limits of the schema
ToolArgs ==
  {a \in [hasSql : BOOLEAN,
          sql : {SqlSelect, SqlDrop},
          batchSize : {Absent, Given(0), Given(1), Given(MAX_BATCH_SIZE),
                       Given(MAX_BATCH_SIZE + 1)},
          maxRows : {Absent, Given(0), Given(MAX_STREAM_ROWS),
                     Given(MAX_STREAM_ROWS + 1)}] :
     a.hasSql \/ (a.sql = SqlSelect /\ a.batchSize = Absent
                  /\ a.maxRows = Absent)}

\* one invocation of a tool, over tables below, at and beyond the ceiling
InitTool ==
  /\ InitService
  /\ config.readonlyMode = "absent"
  /\ input \in [args : ToolArgs,
                env : {"set", "unset"},
                response : {WellFormed},
                driverMessage : {MsgSyntaxError}]
  /\ data \in {Table(0), Table(2), Table(MAX_BATCHES),
               Table(MAX_BATCHES + 1), Table(MAX_BATCHES + 2)}

NextTool ==
  \/ \E name \in ToolNames : ToolStart(name, input.args)
  \/ ToolNextFirst
  \/ ToolConsumes
  \/ ToolSecondQuery
  \/ AwaitConnectResolves
  \/ AwaitConnectRejects
  \/ AwaitQueryResolves
  \/ AwaitQueryRejects
  \/ ToolSettles
  \/ ToolDisconnected
  \/ HandlerResponds

SpecTool == InitTool /\ [][NextTool]_vars

\* two invocations that overlap, over a small table
InitOverlap ==
  /\ InitService
  /\ config.readonlyMode = "absent"
  /\ input \in [args : {[hasSql |-> TRUE, sql |-> SqlSelect,
                         batchSize |-> Given(1), maxRows |-> Absent],
                        [hasSql |-> TRUE, sql |-> SqlSelect,
                         batchSize |-> Given(0), maxRows |-> Absent]},
                env : {"set"},
                response : {WellFormed},
                driverMessage : {MsgSyntaxError}]
  /\ data \in {Table(0), Table(1)}

NextOverlap ==
  \/ \E name \in ToolNames : ToolStart(name, input.args)
  \/ ToolNextFirst
  \/ ToolConsumes
  \/ ToolSecondQuery
  \/ AwaitConnectResolves
  \/ AwaitConnectRejects
  \/ AwaitQueryResolves
  \/ AwaitQueryRejects
  \/ ToolSettles
  \/ ToolDisconnected
  \/ HandlerResponds
  \/ Switch

SpecOverlap == InitOverlap /\ [][NextOverlap]_vars

\* ------------------------------------------------- vocabulary of the claims
KwInsert == <<"I","N","S","E","R","T">>
KwUpdate == <<"U","P","D","A","T","E">>
KwDelete == <<"D","E","L","E","T","E">>
KwDrop == <<"D","R","O","P">>
KwCreate == <<"C","R","E","A","T","E">>
KwAlter == <<"A","L","T","E","R">>
KwTruncate == <<"T","R","U","N","C","A","T","E">>
KwMerge == <<"M","E","R","G","E">>
KwCopy == <<"C","O","P","Y">>
KwSelect == <<"S","E","L","E","C","T">>
KwShow == <<"S","H","O","W">>
KwDescribe == <<"D","E","S","C","R","I","B","E">>
KwExplain == <<"E","X","P","L","A","I","N">>
KwWith == <<"W","I","T","H">>

AllowListedKeywords == {KwSelect, KwShow, KwDescribe, KwExplain, KwWith}

MutatingKeywords ==
  {KwInsert, KwUpdate, KwDelete, KwDrop, KwCreate, KwAlter, KwTruncate,
   KwMerge, KwCopy}

\* the text reads kw, in any letter case, from position p on
ReadsAt(s, p, kw) ==
  /\ p + Len(kw) - 1 <= Len(s)
  /\ \A j \in 1..Len(kw) : UpperChar(s[p + j - 1]) = kw[j]

\* the first character after the leading white space begins an allow-listed
\* keyword
LeadsWithAllowListed(s) ==
  \E p \in 1..Len(s), kw \in AllowListedKeywords :
     /\ \A j \in 1..(p - 1) : s[j] \in WhiteSpace
     /\ ReadsAt(s, p, kw)

\* the positions where a statement of a (multi-statement) text begins
StatementStarts(s) ==
  {p \in 1..Len(s) :
     /\ s[p] \notin WhiteSpace \cup {";"}
     /\ \E q \in 0..(p - 1) :
          /\ q = 0 \/ s[q] = ";"
          /\ \A j \in (q + 1)..(p - 1) : s[j] \in WhiteSpace}

ContainsMutatingStatement(s) ==
  \E p \in StatementStarts(s), kw \in MutatingKeywords : ReadsAt(s, p, kw)

ReadonlyOn == config.readonlyMode \in {"true", "absent"}

\* the operation has evaluated the gate
GateEvaluated == op # "none" /\ pc # "created"

StreamEnded == op = "streamQuery" /\ pc = "idle" /\ outcome = "end"

RECURSIVE RowsThrough(_, _)
RowsThrough(batches, k) ==
  IF k = 0 THEN 0 ELSE RowsThrough(batches, k - 1) + Len(batches[k].batch)

RECURSIVE Concatenation(_, _)
Concatenation(batches, k) ==
  IF k = 0 THEN <<>> ELSE Concatenation(batches, k - 1) \o batches[k].batch

CeilDiv(n, b) == (n + b - 1) \div b

\* the text s ends with the text t
EndsWith(s, t) ==
  /\ Len(t) <= Len(s)
  /\ SubSeq(s, Len(s) - Len(t) + 1, Len(s)) = t

\* the text t occurs in the text s
Contains(s, t) ==
  \E p \in 1..(Len(s) - Len(t) + 1) : SubSeq(s, p, p + Len(t) - 1) = t

\* "readonly mode is enabled"
TextReadonlyEnabled ==
  <<"r","e","a","d","o","n","l","y"," ","m","o","d","e"," ","i","s"," ","e",
    "n","a","b","l","e","d">>

\* "VERTICA_READONLY_MODE=false"
TextDisableGuidance ==
  <<"V","E","R","T","I","C","A","_","R","E","A","D","O","N","L","Y","_","M",
    "O","D","E","=","f","a","l","s","e">>

\* the invocation is over: execute() returned its envelope or threw
InvocationOver == tool.pc \in {"returned", "threw"}

\* what the awaited service operation came to, as the tool reports it
PrimarySuccess ==
  \/ tool.name = "execute_query" /\ outcome = "result"
  \/ tool.name = "stream_query" /\ outcome \in {"end", "returned"}
  \/ tool.name = "get_table_structure" /\ outcome = "result"
       /\ result.rows # <<>>

\* a page query of the running stream was rejected by the driver
PageQueryRejected == op = "streamQuery" /\ rejected > 0 /\ queries # <<>>

\* ----------------------------------------------------------------- C1
\* C1: under readonly mode (true or absent), a statement whose trimmed,
\* upper-cased text starts with none of SELECT, SHOW, DESCRIBE, EXPLAIN, WITH
\* (the empty string included) makes executeQuery and streamQuery fail with
\* the readonly-violation error.
C1_NonAllowListedRejected ==
  (ReadonlyOn /\ GateEvaluated /\ ~LeadsWithAllowListed(sql))
    => (pc = "idle" /\ outcome = "ReadonlyViolation")

C1_Witness ==
  /\ ReadonlyOn
  /\ op = "streamQuery"
  /\ sql = <<>>
  /\ outcome = "ReadonlyViolation"

\* ----------------------------------------------------------------- C2
\* C2: under readonly mode, a statement whose trimmed, upper-cased text
\* starts with an allow-listed keyword passes the gate in any letter case and
\* with any leading or trailing white space: no readonly violation is raised
\* and the operation goes on to connect and to send the statement.
C2_AllowListedPermitted ==
  (ReadonlyOn /\ GateEvaluated /\ LeadsWithAllowListed(sql))
    => /\ outcome # "ReadonlyViolation"
       /\ \/ pc = "connecting"
          \/ outcome = "ConnectionFailure"
          \/ /\ queries # <<>>
             /\ Len(queries[1].text) >= Len(sql)
             /\ SubSeq(queries[1].text, 1, Len(sql)) = sql

C2_Witness ==
  /\ ReadonlyOn
  /\ op = "executeQuery"
  /\ sql = <<"\n">> \o Alternating(SqlWith) \o <<" ">>
  /\ outcome = "result"
  /\ queries = <<PlainQuery(sql)>>

\* ----------------------------------------------------------------- C3
\* C3: the gate runs before connect() and before any query(): the step in
\* which executeQuery or streamQuery fails with the readonly violation
\* creates no client, opens no connection and sends no query, and neither
\* does the creation of the generator that precedes it.
C3_GateBeforeConnect ==
  [][ /\ (outcome' = "ReadonlyViolation" /\ (calls' # calls \/ pc = "created"))
         => /\ clientsCreated' = clientsCreated
            /\ connection' = connection
            /\ queries' = <<>>
            /\ pc' = "idle"
      /\ pc' = "created"
         => /\ clientsCreated' = clientsCreated
            /\ connection' = connection
            /\ queries' = <<>> ]_vars

C3_Witness ==
  /\ op = "streamQuery"
  /\ outcome = "ReadonlyViolation"
  /\ sql = SqlInsert
  /\ clientsCreated = 0
  /\ connection = 0
  /\ calls = 1

\* ----------------------------------------------------------------- C4
\* C4: in readonly mode no text that contains a data- or schema-modifying
\* statement, multi-statement texts included, is passed to the client's
\* query().
C4_NoMutatingTextSent ==
  ReadonlyOn
    => \A i \in 1..Len(queries) : ~ContainsMutatingStatement(queries[i].text)

\* ----------------------------------------------------------------- C5
\* C5: with readonlyMode=false the gate permits every statement, for
\* executeQuery and streamQuery alike: no readonly violation is raised.
C5_WriteModePermitsAll ==
  config.readonlyMode = "false" => outcome # "ReadonlyViolation"

\* ----------------------------------------------------------------- C6
\* C6: with maxRows set, the rows delivered over all batches of one stream
\* never exceed maxRows; the stream stops at the batch where the cap is
\* reached, and that batch has hasMore = false.
C6_RowCapNeverExceeded ==
  (op = "streamQuery" /\ options.maxRows # NoCap)
    => /\ RowsThrough(yielded, Len(yielded)) <= options.maxRows
       /\ \A k \in 1..Len(yielded) :
             RowsThrough(yielded, k) >= options.maxRows
               => (k = Len(yielded) /\ ~yielded[k].hasMore)

\* ----------------------------------------------------------------- C7
\* C7: in every yielded batch hasMore is true iff the page held exactly
\* batchSize rows and (no cap is configured or the rows fetched so far, this
\* page included, are below the cap).
C7_HasMoreIff ==
  op = "streamQuery"
    => \A k \in 1..Len(yielded) :
          yielded[k].hasMore
            <=> /\ Len(yielded[k].batch) = options.batchSize
                /\ \/ options.maxRows = NoCap
                   \/ RowsThrough(yielded, k) < options.maxRows

C7_Witness ==
  /\ op = "streamQuery"
  /\ options.maxRows # NoCap
  /\ Len(yielded) = 2
  /\ yielded[1].hasMore
  /\ ~yielded[2].hasMore
  /\ Len(yielded[2].batch) = options.batchSize
  /\ RowsThrough(yielded, 2) = options.maxRows

\* ----------------------------------------------------------------- C8
\* C8: within one streamQuery invocation the batchNumber values of the
\* yielded batches are 1, 2, 3, ... in yield order, however the stream ends.
C8_BatchNumbersConsecutive ==
  \A k \in 1..Len(yielded) : yielded[k].batchNumber = k

C8_Witness ==
  /\ op = "streamQuery"
  /\ outcome = "QueryExecution"
  /\ Len(yielded) = 3
  /\ yielded[3].batchNumber = 3

\* ----------------------------------------------------------------- C9
\* C9: over a static result of N rows, without a cap, a stream that runs to
\* its end yields ceil(N/b) batches, all but the last of b rows, the last of
\* N - (ceil(N/b) - 1) * b rows, whose concatenation is the full result.
C9_BatchesPartitionResult ==
  (StreamEnded /\ options.maxRows = NoCap)
    => LET n == Len(data)
           b == options.batchSize
           m == CeilDiv(n, b)
       IN  /\ Len(yielded) = m
           /\ \A k \in 1..(m - 1) : Len(yielded[k].batch) = b
           /\ m > 0 => Len(yielded[m].batch) = n - (m - 1) * b
           /\ Concatenation(yielded, Len(yielded)) = data

C9_Witness ==
  /\ StreamEnded
  /\ options = [batchSize |-> 2, maxRows |-> NoCap]
  /\ Len(data) = 3
  /\ Len(yielded) = 2
  /\ yielded[2].batch = <<3>>

\* ----------------------------------------------------------------- C10
\* C10 as stated: in every yielded batch totalBatches is batchNumber if the
\* batch is the last one the stream yields, and batchNumber + 1 otherwise.
C10_Original ==
  StreamEnded
    => \A k \in 1..Len(yielded) :
          yielded[k].totalBatches =
            IF k = Len(yielded) THEN yielded[k].batchNumber
            ELSE yielded[k].batchNumber + 1

\* C10 as amended: totalBatches is batchNumber when the page was short or the
\* cap is reached, and batchNumber + 1 otherwise; every batch that is not the
\* last has batchNumber + 1, and so has a last batch that was a full page
\* below the cap.
C10_TotalBatchesEstimate ==
  op = "streamQuery"
    => \A k \in 1..Len(yielded) :
          LET final == \/ Len(yielded[k].batch) < options.batchSize
                       \/ /\ options.maxRows # NoCap
                          /\ RowsThrough(yielded, k) >= options.maxRows
          IN  /\ yielded[k].totalBatches =
                   IF final THEN yielded[k].batchNumber
                   ELSE yielded[k].batchNumber + 1
              /\ k < Len(yielded)
                   => yielded[k].totalBatches = yielded[k].batchNumber + 1

C10_Witness ==
  /\ StreamEnded
  /\ Len(yielded) = 2
  /\ yielded[2].totalBatches = 3
  /\ Len(data) = 2 * options.batchSize

\* ----------------------------------------------------------------- C11
\* C11: over finite static data and with batchSize >= 1 every stream
\* terminates: a stream that was created reaches its end, an error, or the
\* consumer's return; and with maxRows set, one stream issues at most
\* ceil(maxRows / batchSize) page queries, whatever the size of the data.
C11_StreamTerminates ==
  /\ [](op = "streamQuery" /\ options.maxRows # NoCap
          => Len(queries) <= CeilDiv(options.maxRows, options.batchSize))
  /\ (op = "streamQuery" /\ pc # "idle")
       ~> /\ pc = "idle"
          /\ outcome \in {"end", "returned", "ReadonlyViolation",
                          "ConnectionFailure", "QueryExecution"}

C11_Witness ==
  /\ StreamEnded
  /\ options = [batchSize |-> 2, maxRows |-> 3]
  /\ Len(data) = MaxData
  /\ Len(queries) = 2

\* ----------------------------------------------------------------- C12
\* C12: when the driver rejects the query of page k, the stream fails with
\* the query-execution error, whose message wraps the driver's message; no
\* batch is yielded for page k, the k - 1 batches yielded before stay as
\* they were, the query is not retried and no later page is queried.
C12_PageFailureEndsStream ==
  /\ [](PageQueryRejected
          => /\ pc = "idle"
             /\ outcome = "QueryExecution"
             /\ EndsWith(error, input.driverMessage)
             /\ Len(error) > Len(input.driverMessage)
             /\ Len(yielded) = Len(queries) - 1
             /\ rejected = 1)
  /\ [][(op = "streamQuery" /\ calls' = calls
           /\ (rejected' > rejected \/ PageQueryRejected))
          => (yielded' = yielded /\ queries' = queries)]_vars

C12_Witness ==
  /\ PageQueryRejected
  /\ outcome = "QueryExecution"
  /\ Len(queries) = 3
  /\ Len(yielded) = 2
  /\ error = StreamFailedHead \o MsgSyntaxError

\* ----------------------------------------------------------------- C13
\* C13: streamQuery is lazy and strictly sequential: the query of page k is
\* sent only after the consumer's k-th request, and that of page k + 1 only
\* after batch k was handed over, so at most one page query is in flight;
\* a query is only ever sent while a request of the consumer is waiting for
\* its item, so once the consumer stops requesting no query is sent.
C13_LazySequential ==
  /\ [](op = "streamQuery"
          => /\ Len(queries) <= requests
             /\ Len(queries) <= Len(yielded) + 1)
  /\ [][(op' = "streamQuery" /\ queries' # queries /\ queries' # <<>>)
          => /\ requests' = Len(yielded') + 1
             /\ Len(queries') = Len(yielded') + 1]_vars

C13_Witness ==
  /\ op = "streamQuery"
  /\ pc = "querying"
  /\ Len(queries) = 3
  /\ requests = 3
  /\ Len(yielded) = 2

\* ----------------------------------------------------------------- C19
\* C19: the error raised when the gate rejects a statement carries the
\* attempted statement text and the allow-list (SELECT, SHOW, DESCRIBE,
\* EXPLAIN, WITH), states that readonly mode is enabled, and includes the
\* guidance VERTICA_READONLY_MODE=false.
C19_ViolationMessage ==
  outcome = "ReadonlyViolation"
    => /\ Contains(error, sql)
       /\ \A kw \in AllowListedKeywords : Contains(error, kw)
       /\ Contains(error, TextReadonlyEnabled)
       /\ Contains(error, TextDisableGuidance)

\* ----------------------------------------------------------------- C20
\* C20: whatever the driver resolves a query with, a result that lacks
\* rows, rowCount, fields or command or is otherwise malformed included,
\* executeQuery returns a QueryResult in which every absent field is
\* replaced by the empty sequence, zero or the empty string; it never fails.
C20_MalformedResultDefaults ==
  (op = "executeQuery" /\ pc = "idle" /\ queries # <<>> /\ rejected = 0)
    => /\ outcome = "result"
       /\ error = <<>>
       /\ LET has == IF input.response.defined THEN input.response.has
                     ELSE {}
          IN  /\ result.rows = IF "rows" \in has THEN data ELSE <<>>
              /\ result.rowCount = IF "rowCount" \in has THEN Len(data) ELSE 0
              /\ result.fields = IF "fields" \in has THEN FieldsOf ELSE <<>>
              /\ result.command = IF "command" \in has THEN "SELECT" ELSE ""

\* ----------------------------------------------------------------- C14
\* C14: an invocation of a tool that created a service has called
\* disconnect() by the time it returns, on the success path, on the failure
\* path and when stream_query leaves its loop at the batch ceiling; no
\* connection the invocation opened is open after it returned.
C14_DisconnectBeforeReturn ==
  (tool.service /\ InvocationOver)
    => /\ tool.disconnects >= 1
       /\ connection = 0

C14_Witness ==
  /\ tool.name = "stream_query"
  /\ tool.pc = "returned"
  /\ outcome = "returned"
  /\ tool.clients = 1
  /\ tool.disconnects = 1
  /\ connection = 0

\* ----------------------------------------------------------------- C15
\* C15: a failure of the cleanup never masks the primary outcome: whether
\* end() resolves or rejects, the tool returns the envelope it had built
\* from the outcome of the operation, and the failure is not raised.
C15_CleanupFailureNotRaised ==
  /\ [](tool.cleanup = "rejected"
          => /\ tool.pc = "returned"
             /\ tool.envelope.success <=> PrimarySuccess
             /\ outcome \notin {"result", "end", "returned"}
                  => tool.envelope.error = error)
  /\ [][tool.pc = "cleanup"
          => (tool'.pc = "returned" /\ tool'.envelope = tool.envelope)]_vars

C15_Witness ==
  /\ tool.cleanup = "rejected"
  /\ tool.pc = "returned"
  /\ outcome = "QueryExecution"
  /\ tool.envelope = Failure(StreamFailedHead \o MsgSyntaxError, SqlSelect)
  /\ Len(tool.batches) = 2

C17_AtMostHundredBatches ==
  /\ Len(tool.envelope.batches) <= MAX_BATCHES
  /\ tool.envelope.batchCount <= MAX_BATCHES

\* ----------------------------------------------------------------- C18
\* C18: when the engine can yield more than 101 batches, stream_query
\* stops consuming after exactly 101 batches and returns success = true
\* with batchCount = 101 and 101 batches.
C18_StopsAfter101 ==
  (/\ tool.name = "stream_query"
   /\ tool.pc = "returned"
   /\ tool.service
   /\ LeadsWithAllowListed(sql)
   /\ rejected = 0
   /\ Len(data) > (MAX_BATCHES + 1) * options.batchSize
   /\ options.maxRows = NoCap
        \/ options.maxRows > (MAX_BATCHES + 1) * options.batchSize)
    => /\ tool.envelope.success
       /\ tool.envelope.batchCount = MAX_BATCHES + 1
       /\ Len(tool.envelope.batches) = MAX_BATCHES + 1
       /\ Len(queries) = MAX_BATCHES + 1
       /\ outcome = "returned"

C18_Witness ==
  /\ tool.name = "stream_query"
  /\ tool.pc = "returned"
  /\ tool.envelope.success
  /\ tool.envelope.batchCount = MAX_BATCHES + 1
  /\ Len(data) = MAX_BATCHES + 2
  /\ options.maxRows = NoCap

\* ----------------------------------------------------------------- C29
\* the letters of the alphabet, in both cases
Letters ==
  {LowerLetters[i] : i \in 1..26} \cup {UpperLetters[i] : i \in 1..26}

\* the position of the first character after the leading white space, 0 when
\* the text has none
FirstPosition(s) ==
  LET nonWs == {i \in 1..Len(s) : s[i] \notin WhiteSpace}
  IN  IF nonWs = {} THEN 0 ELSE CHOOSE i \in nonWs : \A j \in nonWs : i <= j

\* the leading keyword token: the longest run of letters the statement
\* begins with, in upper case; empty when it begins with no letter
LeadingKeyword(s) ==
  LET first == FirstPosition(s)
      stops == {i \in 1..(Len(s) + 1) :
                  i >= first /\ (i = Len(s) + 1 \/ s[i] \notin Letters)}
      stop  == CHOOSE i \in stops : \A j \in stops : i <= j
  IN  IF first = 0 THEN <<>>
      ELSE [i \in 1..(stop - first) |-> UpperChar(s[first + i - 1])]

\* C29: under readonly mode the gate decides on the leading keyword token of
\* the statement: a statement whose leading keyword is a word other than
\* SELECT, SHOW, DESCRIBE, EXPLAIN and WITH is rejected with the
\* readonly-violation error, also when that word has an allow-listed word as
\* a proper prefix (SHOWX).
C29_LeadingTokenDecides ==
  (/\ ReadonlyOn
   /\ GateEvaluated
   /\ LeadingKeyword(sql) # <<>>
   /\ LeadingKeyword(sql) \notin AllowListedKeywords)
    => (pc = "idle" /\ outcome = "ReadonlyViolation")

\* ----------------------------------------------------------------- C30
\* the statement begins, after its leading white space, with a "--" comment
CommentPrefixed(s) ==
  LET first == FirstPosition(s)
  IN  /\ first # 0
      /\ first < Len(s)
      /\ s[first] = "-"
      /\ s[first + 1] = "-"

\* a "--" comment line comes first and the statement on the line after it
\* leads with a mutating keyword
CommentPrefixedMutating(s) ==
  /\ CommentPrefixed(s)
  /\ \E q \in 1..Len(s), p \in 1..Len(s), kw \in MutatingKeywords :
        /\ FirstPosition(s) < q
        /\ q < p
        /\ s[q] = "\n"
        /\ \A j \in FirstPosition(s)..(q - 1) : s[j] # "\n"
        /\ \A j \in (q + 1)..(p - 1) : s[j] \in WhiteSpace
        /\ ReadsAt(s, p, kw)

\* C30 as stated: under readonly mode a mutating statement preceded by an SQL
\* comment passes the gate.
C30_Original ==
  (ReadonlyOn /\ GateEvaluated /\ CommentPrefixedMutating(sql))
    => outcome # "ReadonlyViolation"

\* C30: under readonly mode a statement preceded by a "--" comment, mutating
\* or not, is rejected with the readonly-violation error and no query is
\* sent: normalisation only trims white space, so the text the gate tests
\* begins with the comment and with no allow-listed word.
C30_CommentPrefixRejected ==
  (ReadonlyOn /\ GateEvaluated /\ CommentPrefixed(sql))
    => /\ pc = "idle"
       /\ outcome = "ReadonlyViolation"
       /\ queries = <<>>

C30_Witness ==
  /\ ReadonlyOn
  /\ op = "executeQuery"
  /\ sql = SqlComment
  /\ outcome = "ReadonlyViolation"
  /\ queries = <<>>
  /\ connection = 0

\* ----------------------------------------------------------------- C25
\* n in decimal notation
RECURSIVE Decimal(_)
Decimal(n) ==
  LET digit == CASE n % 10 = 0 -> "0" [] n % 10 = 1 -> "1" [] n % 10 = 2 -> "2"
                 [] n % 10 = 3 -> "3" [] n % 10 = 4 -> "4" [] n % 10 = 5 -> "5"
                 [] n % 10 = 6 -> "6" [] n % 10 = 7 -> "7" [] n % 10 = 8 -> "8"
                 [] n % 10 = 9 -> "9"
  IN  IF n < 10 THEN <<digit>> ELSE Append(Decimal(n \div 10), digit)

\* the base statement with " LIMIT b OFFSET (k-1)*b" appended
KthPageText(base, b, k) ==
  base \o <<" ","L","I","M","I","T"," ">> \o Decimal(b)
       \o <<" ","O","F","F","S","E","T"," ">> \o Decimal((k - 1) * b)

\* a page query of the stream is with the database
PageQueryInFlight == op = "streamQuery" /\ pc = "querying"

\* C25: the k-th page query of a stream is the base statement with
\* " LIMIT batchSize OFFSET (k-1)*batchSize" appended, and while a page query
\* is with the database, offset = batchSize * batchNumber = totalFetched and
\* the query is the (batchNumber + 1)-th: the windows are the consecutive
\* multiples of batchSize, none skipped and none repeated.
C25_ConsecutiveWindows ==
  op = "streamQuery"
    => /\ \A k \in 1..Len(queries) :
            /\ queries[k].text = KthPageText(sql, options.batchSize, k)
            /\ queries[k].offset = (k - 1) * options.batchSize
            /\ queries[k].limit = options.batchSize
       /\ PageQueryInFlight
            => /\ offset = options.batchSize * batchNumber
               /\ offset = totalFetched
               /\ Len(queries) = batchNumber + 1

C25_Witness ==
  /\ PageQueryInFlight
  /\ options.batchSize = 2
  /\ Len(queries) = 3
  /\ offset = 4
  /\ totalFetched = 4

\* ----------------------------------------------------------------- C26
\* the result is a positive exact multiple of batchSize and the cap, if any,
\* lies beyond it
ExactMultipleUncapped ==
  /\ Len(data) > 0
  /\ Len(data) % options.batchSize = 0
  /\ (options.maxRows = NoCap \/ options.maxRows > Len(data))

\* C26: when the result size N is a positive exact multiple of batchSize and
\* no row cap ends the stream, a stream that ran to its end has issued
\* N/batchSize + 1 page queries, the last of which returned no rows and
\* yielded nothing: N/batchSize batches were delivered, and the last of them
\* has hasMore = TRUE and totalBatches = batchNumber + 1.
C26_TrailingEmptyPage ==
  (StreamEnded /\ ExactMultipleUncapped)
    => LET n == Len(data) \div options.batchSize
       IN  /\ Len(queries) = n + 1
           /\ Page(data, queries[n + 1].limit, queries[n + 1].offset) = <<>>
           /\ Len(yielded) = n
           /\ yielded[n].hasMore
           /\ yielded[n].batchNumber = n
           /\ yielded[n].totalBatches = n + 1

C26_Witness ==
  /\ StreamEnded
  /\ options = [batchSize |-> 1, maxRows |-> 4]
  /\ Len(data) = 3
  /\ Len(queries) = 4
  /\ Len(yielded) = 3
  /\ yielded[3].hasMore

\* ----------------------------------------------------------------- C22
\* the invocation's call of disconnect() has returned
DisconnectReturned == tool.disconnects > 0 /\ tool.pc # "cleanup"

\* C22: once disconnect() has returned, isConnected() is false, also when
\* the driver's end() was rejected, and disconnect() has not thrown: the
\* caller goes on to return its envelope; and a disconnect() called while
\* the service is not connected returns at once without a call of end().
C22_DisconnectAlwaysDisconnects ==
  /\ [](DisconnectReturned => (~isConnected /\ tool.pc = "returned"))
  /\ [](tool.cleanup = "rejected" => (~isConnected /\ tool.pc = "returned"))
  /\ [][(tool'.disconnects > tool.disconnects /\ ~isConnected)
          => (tool'.pc = "returned" /\ tool'.cleanup = "none"
              /\ connection' = connection)]_vars

C22_Witness ==
  /\ tool.disconnects = 1
  /\ tool.cleanup = "rejected"
  /\ tool.pc = "returned"
  /\ tool.name = "execute_query"
  /\ ~isConnected

\* ----------------------------------------------------------------- C23
\* C23: when the connection cannot be established the operation fails with
\* the connection-failure error, whose message names the host, the port and
\* the database of the configuration and does not hold the password; the
\* service is not connected and no query was sent.
C23_ConnectionFailureContext ==
  (op # "none" /\ outcome = "ConnectionFailure")
    => /\ pc = "idle"
       /\ Contains(error, config.host)
       /\ Contains(error, Decimal(config.port))
       /\ Contains(error, config.database)
       /\ ~Contains(error, config.password)
       /\ ~isConnected
       /\ queries = <<>>

\* ----------------------------------------------------------------- C24
\* the input of stream_query has no sql, a batchSize outside [1, 10000] or a
\* maxRows outside [1, 1000000]
StreamInputInvalid(args) ==
  \/ ~args.hasSql
  \/ args.batchSize.set /\ args.batchSize.value \notin 1..10000
  \/ args.maxRows.set /\ args.maxRows.value \notin 1..1000000

\* C24: stream_query throws on an input whose sql is missing, whose
\* batchSize is outside [1, 10000] or whose maxRows is outside [1, 1000000],
\* with no service created and no client opened; so the tool runs the engine
\* only with batchSize in [1, 10000], 1000 when omitted, and maxRows absent
\* or in [1, 1000000].
C24_InvalidInputRejected ==
  tool.name = "stream_query"
    => /\ StreamInputInvalid(input.args)
            => /\ tool.pc = "threw"
               /\ ~tool.service
               /\ tool.clients = 0
               /\ clientsCreated = 0
               /\ op = "none"
       /\ op = "streamQuery"
            => /\ options.batchSize \in 1..10000
               /\ options.batchSize =
                    IF input.args.batchSize.set
                    THEN input.args.batchSize.value ELSE 1000
               /\ IF input.args.maxRows.set
                  THEN /\ options.maxRows = input.args.maxRows.value
                       /\ options.maxRows \in 1..1000000
                  ELSE options.maxRows = NoCap

C24_Witness ==
  /\ tool.name = "stream_query"
  /\ tool.pc = "threw"
  /\ input.args.hasSql
  /\ input.args.batchSize = Given(10001)
  /\ input.args.maxRows = Absent
  /\ input.env = "set"
  /\ op = "none"
  /\ clientsCreated = 0

\* ----------------------------------------------------------------- C27
\* stream_query has built its envelope after a page query failed with k >= 1
\* batches accumulated
FailedAfterBatches ==
  /\ tool.name = "stream_query"
  /\ tool.pc \in {"cleanup", "returned"}
  /\ PageQueryRejected
  /\ outcome = "QueryExecution"
  /\ Len(tool.batches) >= 1

\* C27: when a page query fails after stream_query has accumulated k >= 1
\* batches, the envelope the tool returns has success = FALSE, the message
\* of the error and the query, and nothing of the k batches: no batch, no
\* batch count, no row and no row total.
C27_FailureDropsBatches ==
  FailedAfterBatches
    => /\ ~tool.envelope.success
       /\ tool.envelope.error = error
       /\ Contains(tool.envelope.error, input.driverMessage)
       /\ tool.envelope.query = input.args.sql
       /\ tool.envelope.batches = <<>>
       /\ tool.envelope.batchCount = 0
       /\ tool.envelope.rows = <<>>
       /\ tool.envelope.totalRows = 0

C27_Witness ==
  /\ FailedAfterBatches
  /\ tool.pc = "returned"
  /\ Len(tool.batches) = 1
  /\ tool.totalRows = 1
  /\ ~tool.envelope.success
  /\ tool.envelope.batches = <<>>

\* ----------------------------------------------------------------- C21
\* the two invocations the handler serves
Invocations == {tool, parked.tool}

\* the handler has answered the request of invocation t
Answered(t) == t.response.kind # "none"

\* C21: every call of a registered tool that is over is answered by the
\* handler with a response marked success = TRUE or success = FALSE: what
\* execute() returned, or, when execute() threw, a success = FALSE envelope
\* with the message of the exception, flagged isError; the exception never
\* leaves the handler, and the step in which execute() throws changes
\* nothing but that invocation, so that another call is not affected.
C21_HandlerAlwaysAnswers ==
  /\ [](\A t \in Invocations :
          /\ t.response.kind \in {"none", "result", "error"}
          /\ Answered(t)
               => /\ t.pc \in {"returned", "threw"}
                  /\ t.response.body.success \in BOOLEAN
                  /\ t.pc = "threw"
                       => /\ ~t.response.body.success
                          /\ t.response.isError
                          /\ t.response.body.error = t.thrown
                          /\ t.response.body.error # <<>>
                  /\ t.pc = "returned"
                       => t.response.body = t.envelope)
  /\ [](InvocationOver => (Answered(tool) \/ ENABLED HandlerResponds))
  /\ [][(tool'.id = tool.id /\ tool.pc = "none" /\ tool'.pc = "threw")
          => (/\ UNCHANGED serviceVars
              /\ UNCHANGED parked)]_vars

\* the first call threw and was answered, the second call succeeded
C21_Witness ==
  /\ parked.tool.id = 1
  /\ parked.tool.name = "stream_query"
  /\ parked.tool.pc = "threw"
  /\ parked.tool.response.kind = "error"
  /\ ~parked.tool.response.body.success
  /\ tool.id = 2
  /\ tool.name = "execute_query"
  /\ tool.response.kind = "result"
  /\ tool.response.body.success
  /\ tool.response.body.rows = data
  /\ Len(data) = 1

\* ----------------------------------------------------------------- C28
\* the rows of the table, as it is now, at the positions from + 1 .. from + n
WindowNow(from, n) ==
  [i \in 1..(IF Len(data) - from < 0 THEN 0
              ELSE IF Len(data) - from < n THEN Len(data) - from ELSE n)
     |-> data[from + i]]

\* every row the stream has delivered, in order
Delivered == Concatenation(yielded, Len(yielded))

\* the number of times row r was delivered
TimesDelivered(r) ==
  Cardinality({i \in 1..Len(Delivered) : Delivered[i] = r})

\* row r was in the table from the start of the stream until now: the rows
\* of the table at the start are the positive ones, and a deleted row never
\* comes back
PresentThroughout(r) == r > 0 /\ \E i \in 1..Len(data) : data[i] = r

\* C28: the pages of a stream are not isolated from writes: each page
\* delivered is the window [offset, offset + batchSize) of the table as it
\* is when that page query is answered, not as it was when the stream
\* began; after a row is inserted or deleted between two page queries the
\* stream therefore delivers a row twice or omits a row that was in the
\* table during the whole stream.
C28_PagesReadCurrentTable ==
  [][(op = "streamQuery" /\ Len(yielded') = Len(yielded) + 1)
       => yielded'[Len(yielded')].batch = WindowNow(offset, options.batchSize)
    ]_vars

\* a stream that ran to its end delivered one row twice and left out
\* another that was in the table all the time
C28_Witness ==
  /\ StreamEnded
  /\ \E r \in 1..MaxData : TimesDelivered(r) = 2
  /\ \E r \in 1..MaxData : PresentThroughout(r) /\ TimesDelivered(r) = 0

====
